---- MODULE Spec2Model ----
(***************************************************************************)
(* Model of anvis-tea-backend/server.js: the startup routine start(), the  *)
(* routes GET /, GET /api/products, POST /api/orders and GET /api/orders,  *)
(* the in-memory list memoryOrders, the Order collection of the durable    *)
(* store, and the detached sendOrderEmail call.                            *)
(*                                                                         *)
(* JavaScript runs a handler without interruption up to its next await, so *)
(* every action below is one such run: a handler that awaits is split at   *)
(* the await (Order.create, Order.find, mongoose.connect, sendMail).       *)
(*                                                                         *)
(* Output variables hold what the current step sends: reply (the HTTP      *)
(* response) and logged (the console.error line of a failed email).        *)
(* History variables (not program state): requests, responses, writeFailed,*)
(* lastOk and the field rid carried by stored orders.                      *)
(***************************************************************************)
EXTENDS Integers, Sequences, FiniteSets, TLC

\* ---------------------------------------------------------------- bounds
MaxRequests == 2      \* POST /api/orders requests that pass validation in one run

\* ------------------------------------------------------- JSON values
\* A JSON scalar as the handlers see it: undefined, a string or a number.
Undef == [t |-> "undef", s |-> "", n |-> 0]
Str(x) == [t |-> "str", s |-> x, n |-> 0]
Num(k) == [t |-> "num", s |-> "", n |-> k]
\* identifier assigned by the durable store (an ObjectId), one per document
Oid(k) == [t |-> "oid", s |-> "", n |-> k]

\* JavaScript truthiness, as used by !name, !phone, !address
Truthy(v) == \/ v.t = "str" /\ v.s # ""
             \/ v.t = "num" /\ v.n # 0
             \/ v.t = "oid"

\* --------------------------------------------------------- catalog
products ==
  << [id |-> 1, name |-> "Himalayan Dawn Green", price |-> 650, size |-> "80g", tag |-> "Single estate"],
     [id |-> 2, name |-> "Moonlit Chamomile", price |-> 580, size |-> "50g", tag |-> "Caffeine-free"],
     [id |-> 3, name |-> "Smoked Oak Assam", price |-> 720, size |-> "100g", tag |-> "Small batch"] >>

\* ------------------------------------------------- request bodies
Line1 == [id |-> Str("1"), name |-> Str("Himalayan Dawn Green"), price |-> Num(650), qty |-> Num(2)]
Line2 == [id |-> Num(2), name |-> Str("Moonlit Chamomile"), price |-> Num(580), qty |-> Str("1")]

Arr(items) == [isArray |-> TRUE, items |-> items]
NotArr == [isArray |-> FALSE, items |-> << >>]

Body(nm, ph, ad, ct) == [name |-> nm, phone |-> ph, address |-> ad, cart |-> ct]

\* The request bodies the clients send.
Bodies ==
  { Body(Str("A"), Str("123"), Str("X"), Arr(<<Line1>>)),
    Body(Str("B"), Str("456"), Str("Y"), Arr(<<Line2, Line1>>)),
    Body(Str("A"), Str("123"), Undef, Arr(<<Line1>>)),
    Body(Str(""), Str("123"), Str("X"), Arr(<<Line1>>)),
    Body(Str("A"), Str("123"), Str("X"), Arr(<< >>)),
    Body(Str("A"), Str("123"), Str("X"), NotArr) }

\* ------------------------------------------------------ validation
\* the check without its test cart.length === 0
ValidNoLengthCheck(b) == /\ Truthy(b.name)
                         /\ Truthy(b.phone)
                         /\ Truthy(b.address)
                         /\ b.cart.isArray

\* negation of the condition of the 400 branch of POST /api/orders
Valid(b) == /\ Truthy(b.name)
            /\ Truthy(b.phone)
            /\ Truthy(b.address)
            /\ b.cart.isArray
            /\ Len(b.cart.items) # 0

\* ------------------------------------------------- schema casting
\* Decimal strings and numbers that occur in the request bodies.
NumStrings == { <<1, "1">>, <<2, "2">>, <<580, "580">>, <<650, "650">> }

\* cast of a value to a schema path of type String
CastString(v) ==
  IF v.t = "num" THEN Str((CHOOSE p \in NumStrings : p[1] = v.n)[2]) ELSE v

\* cast of a value to a schema path of type Number
CastNumber(v) ==
  IF v.t = "str" THEN Num((CHOOSE p \in NumStrings : p[2] = v.s)[1]) ELSE v

CastLine(l) == [id |-> CastString(l.id), name |-> CastString(l.name),
                price |-> CastNumber(l.price), qty |-> CastNumber(l.qty)]

\* the document built from { name, phone, address, cart } under orderSchema
OrderDoc(b, rid, at) ==
  [_id |-> Oid(rid), name |-> CastString(b.name), phone |-> CastString(b.phone),
   address |-> CastString(b.address),
   cart |-> Arr([i \in 1..Len(b.cart.items) |-> CastLine(b.cart.items[i])]),
   createdAt |-> at, rid |-> rid]

\* ------------------------------------------------------ in-memory order
\* the identifier taken as the length, without the + 1
NextMemoryIdFromZero(mem) == Len(mem)

\* _id: memoryOrders.length + 1
NextMemoryId(mem) == Len(mem) + 1

\* the object literal savedOrder of the in-memory branch
MemoryOrder(b, mem, rid, at) ==
  [_id |-> Num(NextMemoryId(mem)), name |-> b.name, phone |-> b.phone,
   address |-> b.address, cart |-> b.cart, createdAt |-> at, rid |-> rid]

\* ------------------------------------------------------------ sorting
\* the comparator with its operands exchanged
CompareAscending(a, b) == a.createdAt - b.createdAt

\* comparator of the in-memory listing
Compare(a, b) == b.createdAt - a.createdAt

\* Array.prototype.sort is stable: x goes after every y that does not
\* compare greater than it.
RECURSIVE InsertSorted(_, _)
InsertSorted(x, s) ==
  IF s = << >> THEN << x >>
  ELSE IF Compare(Head(s), x) > 0 THEN << x >> \o s
       ELSE << Head(s) >> \o InsertSorted(x, Tail(s))

RECURSIVE SortMemory(_)
SortMemory(s) ==
  IF s = << >> THEN << >>
  ELSE InsertSorted(s[Len(s)], SortMemory(SubSeq(s, 1, Len(s) - 1)))

\* Order.find().sort({ createdAt: -1 }): any arrangement of the documents
\* with createdAt descending (the store does not fix the order of ties).
SortedFind(s) ==
  LET n == Len(s)
      perms == { p \in [1..n -> 1..n] : \A i, j \in 1..n : i # j => p[i] # p[j] }
  IN { [i \in 1..n |-> s[p[i]]] : p \in { q \in perms :
          \A i, j \in 1..n : i < j => s[q[i]].createdAt >= s[q[j]].createdAt } }

\* ------------------------------------------------------------- state
VARIABLES
  mongoUrl,      \* process.env.MONGO_URL: "absent", "loopback" or "remote"
  pc,            \* position of start(): "start", "connecting", "running"
  connectResult, \* outcome of mongoose.connect: "none", "ok", "failed"
  listenCount,   \* number of app.listen calls made
  readyState,    \* mongoose.connection.readyState
  memoryOrders,  \* the array memoryOrders
  mongoOrders,   \* documents of the Order collection written by this process
  now,           \* Date.now()
  writing,       \* Order.create calls awaiting their result
  finding,       \* Order.find calls awaiting their result
  email,         \* sendOrderEmail promises not yet settled, by request number
  requests,      \* history: body of each validated POST /api/orders, by request number
  responses,     \* history: response of each answered validated POST /api/orders
  writeFailed,   \* history: requests whose Order.create rejected
  lastOk,        \* history: the POST most recently answered with 200
  reply,         \* output: the HTTP response this step sends (NoReply if none)
  logged         \* output: request whose email error this step logs (0 if none)

vars == << mongoUrl, pc, connectResult, listenCount, readyState, memoryOrders,
           mongoOrders, now, writing, finding, email, requests, responses,
           writeFailed, lastOk, reply, logged >>

storeVars == << memoryOrders, mongoOrders >>
startVars == << mongoUrl, pc, connectResult, listenCount >>
postVars == << writing, email, requests, responses, writeFailed, lastOk >>

NoBody == Body(Undef, Undef, Undef, NotArr)

NoReply == [path |-> "none", status |-> 0, body |-> NoBody, orderId |-> Undef,
            orders |-> << >>, answered |-> {}, after |-> 0]

\* res.json of POST /api/orders, with the request body it answers
PostReply(b, st, id) ==
  [NoReply EXCEPT !.path = "POST /api/orders", !.status = st, !.body = b, !.orderId = id]

\* res.json of GET /api/orders; answered and after record what had been
\* answered when the request was issued
ListReply(st, all, answered, after) ==
  [NoReply EXCEPT !.path = "GET /api/orders", !.status = st, !.orders = all,
                  !.answered = answered, !.after = after]

\* steps that send and log nothing
Silent == reply' = NoReply /\ logged' = 0

Init ==
  /\ mongoUrl \in {"absent", "loopback", "remote"}
  /\ pc = "start"
  /\ connectResult = "none"
  /\ listenCount = 0
  /\ readyState = 0
  /\ memoryOrders = << >>
  /\ mongoOrders = << >>
  /\ now = 0
  /\ writing = {}
  /\ finding = {}
  /\ email = {}
  /\ requests = << >>
  /\ responses = << >>
  /\ writeFailed = {}
  /\ lastOk = 0
  /\ reply = NoReply
  /\ logged = 0

\* ------------------------------------------------------------ start()
\* MONGO_URL absent or containing 127.0.0.1: no connect, app.listen
StartLocal ==
  /\ pc = "start"
  /\ mongoUrl \in {"absent", "loopback"}
  /\ pc' = "running"
  /\ listenCount' = listenCount + 1
  /\ Silent
  /\ UNCHANGED << mongoUrl, connectResult, readyState, storeVars, now, finding, postVars >>

\* await mongoose.connect(MONGO_URL)
StartConnect ==
  /\ pc = "start"
  /\ mongoUrl = "remote"
  /\ pc' = "connecting"
  /\ readyState' = 2
  /\ Silent
  /\ UNCHANGED << mongoUrl, connectResult, listenCount, storeVars, now, finding, postVars >>

\* the connect promise resolves: app.listen in the try block
ConnectOk ==
  /\ pc = "connecting"
  /\ pc' = "running"
  /\ connectResult' = "ok"
  /\ readyState' = 1
  /\ listenCount' = listenCount + 1
  /\ Silent
  /\ UNCHANGED << mongoUrl, storeVars, now, finding, postVars >>

\* a catch block that logs the error and does not listen
ConnectFailNoListen ==
  /\ pc = "connecting"
  /\ pc' = "running"
  /\ connectResult' = "failed"
  /\ readyState' = 0
  /\ Silent
  /\ UNCHANGED << mongoUrl, listenCount, storeVars, now, finding, postVars >>

\* the connect promise rejects: app.listen in the catch block
ConnectFail ==
  /\ pc = "connecting"
  /\ pc' = "running"
  /\ connectResult' = "failed"
  /\ readyState' = 0
  /\ listenCount' = listenCount + 1
  /\ Silent
  /\ UNCHANGED << mongoUrl, storeVars, now, finding, postVars >>

\* ------------------------------------------------------- environment
\* an established connection drops
ConnectionLost ==
  /\ connectResult = "ok"
  /\ readyState = 1
  /\ readyState' = 0
  /\ Silent
  /\ UNCHANGED << startVars, storeVars, now, finding, postVars >>

\* the driver re-establishes a connection that had been established
Reconnected ==
  /\ connectResult = "ok"
  /\ readyState = 0
  /\ readyState' = 1
  /\ Silent
  /\ UNCHANGED << startVars, storeVars, now, finding, postVars >>

\* The clock is read only to stamp createdAt, so it is let advance once per
\* request issued: two orders are stamped equal or in either strict order.
Tick ==
  /\ now < Len(requests)
  /\ now' = now + 1
  /\ Silent
  /\ UNCHANGED << startVars, readyState, storeVars, finding, postVars >>

\* requests reach the routes once the server listens
Serving == pc = "running" /\ listenCount >= 1

Reply(st, id) == [status |-> st, orderId |-> id]

\* --------------------------------------------------- POST /api/orders
\* the 400 branch
PostInvalid(b) ==
  /\ Serving
  /\ ~Valid(b)
  /\ reply' = PostReply(b, 400, Undef)
  /\ logged' = 0
  /\ UNCHANGED << startVars, readyState, storeVars, now, finding, postVars >>

\* readyState # 1: build the order, push it, dispatch the email, answer
PostMemory(b) ==
  LET rid == Len(requests) + 1
      savedOrder == MemoryOrder(b, memoryOrders, rid, now)
  IN
  /\ Serving
  /\ rid <= MaxRequests
  /\ Valid(b)
  /\ readyState # 1
  /\ requests' = Append(requests, b)
  /\ memoryOrders' = Append(memoryOrders, savedOrder)
  /\ email' = email \cup {rid}
  /\ responses' = responses @@ (rid :> Reply(200, savedOrder._id))
  /\ lastOk' = rid
  /\ reply' = PostReply(b, 200, savedOrder._id)
  /\ logged' = 0
  /\ UNCHANGED << startVars, readyState, mongoOrders, now, finding, writing, writeFailed >>

\* readyState = 1: await Order.create({ name, phone, address, cart }); the
\* document is built, with createdAt defaulting to Date.now, before the write
PostCreate(b) ==
  LET rid == Len(requests) + 1 IN
  /\ Serving
  /\ rid <= MaxRequests
  /\ Valid(b)
  /\ readyState = 1
  /\ requests' = Append(requests, b)
  /\ writing' = writing \cup { [rid |-> rid, doc |-> OrderDoc(b, rid, now)] }
  /\ Silent
  /\ UNCHANGED << startVars, readyState, storeVars, now, finding, email, responses, writeFailed, lastOk >>

\* Order.create resolves: the document is stored, the email dispatched,
\* the 200 sent
CreateResolved(rid) ==
  /\ readyState = 1
  /\ \E w \in writing :
       LET savedOrder == w.doc IN
       /\ w.rid = rid
       /\ mongoOrders' = Append(mongoOrders, savedOrder)
       /\ responses' = responses @@ (rid :> Reply(200, savedOrder._id))
       /\ reply' = PostReply(requests[rid], 200, savedOrder._id)
       /\ writing' = writing \ {w}
  /\ email' = email \cup {rid}
  /\ lastOk' = rid
  /\ logged' = 0
  /\ UNCHANGED << startVars, readyState, memoryOrders, now, finding, requests, writeFailed >>

\* a write that reached the store with its first cart line before the error
CreateRejectedAfterWrite(rid) ==
  /\ readyState # 1
  /\ \E w \in writing :
       /\ w.rid = rid
       /\ writing' = writing \ {w}
       /\ mongoOrders' = Append(mongoOrders, [w.doc EXCEPT !.cart.items = << Head(@) >>])
  /\ writeFailed' = writeFailed \cup {rid}
  /\ responses' = responses @@ (rid :> Reply(500, Undef))
  /\ reply' = PostReply(requests[rid], 500, Undef)
  /\ logged' = 0
  /\ UNCHANGED << startVars, readyState, memoryOrders, now, finding, email, requests, lastOk >>

\* Order.create rejects because the connection is gone: catch, 500
CreateRejected(rid) ==
  /\ readyState # 1
  /\ \E w \in writing : w.rid = rid /\ writing' = writing \ {w}
  /\ writeFailed' = writeFailed \cup {rid}
  /\ responses' = responses @@ (rid :> Reply(500, Undef))
  /\ reply' = PostReply(requests[rid], 500, Undef)
  /\ logged' = 0
  /\ UNCHANGED << startVars, readyState, storeVars, now, finding, email, requests, lastOk >>

\* ------------------------------------------------------ sendOrderEmail
\* transporter.sendMail resolves
EmailSent(rid) ==
  /\ rid \in email
  /\ email' = email \ {rid}
  /\ Silent
  /\ UNCHANGED << startVars, readyState, storeVars, now, finding, writing, requests, responses, writeFailed, lastOk >>

\* an awaited sendOrderEmail whose error reaches the catch of the handler
EmailFailedAnswers500(rid) ==
  /\ rid \in email
  /\ email' = email \ {rid}
  /\ logged' = rid
  /\ responses' = [responses EXCEPT ![rid] = Reply(500, Undef)]
  /\ reply' = PostReply(requests[rid], 500, Undef)
  /\ UNCHANGED << startVars, readyState, storeVars, now, finding, writing, requests, writeFailed, lastOk >>

\* sendOrderEmail rejects: the .catch callback logs the error
EmailFailed(rid) ==
  /\ rid \in email
  /\ email' = email \ {rid}
  /\ logged' = rid
  /\ reply' = NoReply
  /\ UNCHANGED << startVars, readyState, storeVars, now, finding, writing, requests, responses, writeFailed, lastOk >>

\* ---------------------------------------------------- GET /api/orders
Answered200 == { r \in DOMAIN responses : responses[r].status = 200 }

\* memoryOrders.sort(...) without the copy
GetOrdersMemoryInPlace ==
  /\ Serving
  /\ readyState # 1
  /\ memoryOrders' = SortMemory(memoryOrders)
  /\ reply' = ListReply(200, memoryOrders', Answered200, lastOk)
  /\ logged' = 0
  /\ UNCHANGED << startVars, readyState, mongoOrders, now, finding, postVars >>

\* readyState # 1: sort a copy of memoryOrders and answer
GetOrdersMemory ==
  /\ Serving
  /\ readyState # 1
  /\ reply' = ListReply(200, SortMemory(memoryOrders), Answered200, lastOk)
  /\ logged' = 0
  /\ UNCHANGED << startVars, readyState, storeVars, now, finding, postVars >>

\* readyState = 1: await Order.find().sort({ createdAt: -1 })
GetOrdersFind ==
  /\ Serving
  /\ readyState = 1
  /\ finding = {}
  /\ finding' = { [answered |-> Answered200, after |-> lastOk] }
  /\ Silent
  /\ UNCHANGED << startVars, readyState, storeVars, now, postVars >>

\* the query resolves
FindResolved ==
  /\ readyState = 1
  /\ \E f \in finding :
       /\ finding' = finding \ {f}
       /\ \E all \in SortedFind(mongoOrders) :
            reply' = ListReply(200, all, f.answered, f.after)
  /\ logged' = 0
  /\ UNCHANGED << startVars, readyState, storeVars, now, postVars >>

\* the query rejects: catch, 500
FindRejected ==
  /\ readyState # 1
  /\ \E f \in finding :
       /\ finding' = finding \ {f}
       /\ reply' = ListReply(500, << >>, f.answered, f.after)
  /\ logged' = 0
  /\ UNCHANGED << startVars, readyState, storeVars, now, postVars >>

\* ------------------------------------------- GET / and GET /api/products
GetHealth ==
  /\ Serving
  /\ reply' = [NoReply EXCEPT !.path = "GET /", !.status = 200]
  /\ logged' = 0
  /\ UNCHANGED << startVars, readyState, storeVars, now, finding, postVars >>

GetProducts ==
  /\ Serving
  /\ Len(products) = 3
  /\ reply' = [NoReply EXCEPT !.path = "GET /api/products", !.status = 200]
  /\ logged' = 0
  /\ UNCHANGED << startVars, readyState, storeVars, now, finding, postVars >>

\* ------------------------------------------------------ specification
\* start(), the connection and the clock
Background ==
  \/ StartLocal
  \/ StartConnect
  \/ ConnectOk
  \/ ConnectFail
  \/ ConnectionLost
  \/ Reconnected
  \/ Tick

\* the handler of POST /api/orders, up to the dispatch of the email
Posts ==
  \/ \E b \in Bodies : PostInvalid(b)
  \/ \E b \in Bodies : PostMemory(b)
  \/ \E b \in Bodies : PostCreate(b)
  \/ \E rid \in 1..MaxRequests : CreateResolved(rid)
  \/ \E rid \in 1..MaxRequests : CreateRejected(rid)

\* the GET handlers
Gets ==
  \/ GetOrdersMemory
  \/ GetOrdersFind
  \/ FindResolved
  \/ FindRejected
  \/ GetHealth
  \/ GetProducts

\* the settling of the detached sendOrderEmail promises
Mails ==
  \/ \E rid \in 1..MaxRequests : EmailSent(rid)
  \/ \E rid \in 1..MaxRequests : EmailFailed(rid)

\* The GET handlers write reply and finding only, the email callbacks email
\* and logged only, and neither reads what the other writes: the requests
\* are checked with the emails left pending (Spec), the emails without the
\* GET requests (MailSpec).
Next == Background \/ Posts \/ Gets

NextMail == Background \/ Posts \/ Mails

Spec == Init /\ [][Next]_vars

MailSpec == Init /\ [][NextMail]_vars

\* start() is driven by the event loop: its next step is always taken, and
\* a pending mongoose.connect settles (it resolves or times out).
FairSpec == Spec /\ WF_vars(StartLocal \/ StartConnect \/ ConnectOk \/ ConnectFail)

TypeOK ==
  /\ pc \in {"start", "connecting", "running"}
  /\ readyState \in 0..2
  /\ listenCount \in 0..2
  /\ now \in 0..MaxRequests
  /\ Len(requests) <= MaxRequests

\* ============================================================ claims
RangeOf(q) == { q[i] : i \in DOMAIN q }

\* the orders held by either store
Stored == RangeOf(memoryOrders) \cup RangeOf(mongoOrders)

IsListing == reply.path = "GET /api/orders" /\ reply.status = 200

IsPrefix(p, q) == Len(p) <= Len(q) /\ SubSeq(q, 1, Len(p)) = p

\* a field the claims call missing or falsy
Falsy(v) == v = Undef \/ v = Str("") \/ v = Num(0)

\* a body the claims call invalid
ClaimInvalid(b) ==
  Falsy(b.name) \/ Falsy(b.phone) \/ Falsy(b.address) \/ ~b.cart.isArray \/ b.cart.items = << >>

\* -------------------------------------------------------------- C1
\* C1: every POST /api/orders with a valid body that was answered with 200
\* is found, with the same name, phone, address and cart, in the list of
\* every GET /api/orders issued afterwards.
C1_ListingHasEveryAcceptedOrder ==
  IsListing =>
    \A rid \in reply.answered :
      \E i \in DOMAIN reply.orders :
        /\ reply.orders[i].name = requests[rid].name
        /\ reply.orders[i].phone = requests[rid].phone
        /\ reply.orders[i].address = requests[rid].address
        /\ reply.orders[i].cart = requests[rid].cart

\* -------------------------------------------------------------- C2
C2_NothingInvalidKept ==
  /\ \A o \in Stored \cup RangeOf(reply.orders) :
       ~Falsy(o.name) /\ ~Falsy(o.phone) /\ ~Falsy(o.address) /\ o.cart.isArray /\ o.cart.items # << >>
  /\ \A w \in writing : ~ClaimInvalid(requests[w.rid])

C2_RejectionStep ==
  (reply'.path = "POST /api/orders" /\ ClaimInvalid(reply'.body)) =>
     /\ reply'.status = 400
     /\ UNCHANGED << memoryOrders, mongoOrders, writing, email >>
     /\ logged' = 0

\* C2: a POST /api/orders whose name, phone or address is missing or falsy,
\* or whose cart is not an array or is empty, is answered with 400 in a step
\* that leaves both stores, the pending writes and the emails as they were;
\* no store and no listing ever holds an order with such fields.
C2_InvalidRejectedWithoutEffect == [] C2_NothingInvalidKept /\ [][C2_RejectionStep]_vars

\* a rejection of the body without address while a store holds an order
C2_Witness ==
  /\ reply.path = "POST /api/orders"
  /\ reply.status = 400
  /\ reply.body.address = Undef
  /\ Stored # {}

\* -------------------------------------------------------------- C3
\* C3: when Order.create of a valid POST /api/orders rejects, the request is
\* answered with 500, no order of that request is in a store or in a
\* listing, and no request is answered while its write is still pending.
C3_FailedWriteLeavesNothing ==
  /\ \A rid \in writeFailed :
       /\ rid \in DOMAIN responses
       /\ responses[rid].status = 500
       /\ \A o \in Stored \cup RangeOf(reply.orders) : o.rid # rid
       /\ rid \notin email
  /\ \A w \in writing : w.rid \notin DOMAIN responses
  /\ \A o \in RangeOf(mongoOrders) : Len(o.cart.items) = Len(requests[o.rid].cart.items)

\* a listing answered after a write failed
C3_Witness == writeFailed # {} /\ IsListing

\* -------------------------------------------------------------- C4
C4_DispatchedAfterStoreAndAnswer ==
  \A rid \in email \cup ({logged} \ {0}) :
     /\ rid \in DOMAIN responses
     /\ responses[rid].status = 200
     /\ \E o \in Stored : o.rid = rid /\ o._id = responses[rid].orderId

C4_SettleStep ==
  (email' # email /\ email' \subseteq email) =>
     /\ UNCHANGED << responses, memoryOrders, mongoOrders >>
     /\ reply' = NoReply

\* C4: an email is pending or has failed only for a request whose order is
\* stored and which is already answered 200 with that order's id, and the
\* step in which an email settles (sent or failed) sends no response and
\* changes neither the recorded responses nor the stores.
C4_EmailNeverChangesResponse == [] C4_DispatchedAfterStoreAndAnswer /\ [][C4_SettleStep]_vars

\* the email of a request answered 200 has failed and been logged
C4_Witness ==
  /\ logged # 0
  /\ logged \in DOMAIN responses
  /\ responses[logged].status = 200

\* -------------------------------------------------------------- C5
\* C5: every 200 response of GET /api/orders is sorted by createdAt
\* descending: no order comes before one that was created later.
C5_ListingSortedDescending ==
  IsListing =>
    \A i, j \in DOMAIN reply.orders :
      i < j => reply.orders[i].createdAt >= reply.orders[j].createdAt

\* a listing of the in-memory store whose orders differ in createdAt
C5_Witness ==
  /\ IsListing
  /\ Len(reply.orders) >= 2
  /\ reply.orders[1]._id.t = "num"
  /\ reply.orders[1].createdAt > reply.orders[2].createdAt

\* -------------------------------------------------------------- C6
\* C6: a GET /api/orders issued after a POST /api/orders was answered 200
\* lists the order of the most recently answered POST first, also when an
\* earlier order has the same createdAt.
C6_LatestOrderListedFirst ==
  (IsListing /\ reply.after # 0) =>
    /\ reply.orders # << >>
    /\ reply.orders[1].rid = reply.after

\* -------------------------------------------------------------- C7
\* C7: in no reachable state do both the in-memory list and the durable
\* store hold orders created by this process.
C7_SingleBackend == ~(memoryOrders # << >> /\ mongoOrders # << >>)

\* -------------------------------------------------------------- C8
\* C8: the k-th order of memoryOrders has identifier k and its request was
\* answered 200 with orderId k; no two stored orders share a request or an
\* identifier, and every request answered 200 has its order stored under
\* the orderId it was given.
C8_SequentialIdentifiers ==
  /\ \A k \in DOMAIN memoryOrders :
       /\ memoryOrders[k]._id = Num(k)
       /\ memoryOrders[k].rid \in DOMAIN responses
       /\ responses[memoryOrders[k].rid] = Reply(200, Num(k))
  /\ \A o1, o2 \in Stored : (o1._id = o2._id \/ o1.rid = o2.rid) => o1 = o2
  /\ Cardinality(Stored) = Len(memoryOrders) + Len(mongoOrders)
  /\ \A rid \in Answered200 :
       \E o \in Stored : o.rid = rid /\ o._id = responses[rid].orderId

\* two orders in memoryOrders
C8_Witness == Len(memoryOrders) >= 2 /\ Cardinality(Answered200) >= 2

\* -------------------------------------------------------------- C9
C9_Step ==
  /\ IsPrefix(memoryOrders, memoryOrders')
  /\ IsPrefix(mongoOrders, mongoOrders')
  /\ reply'.path \in {"GET /", "GET /api/products", "GET /api/orders"} =>
       UNCHANGED << memoryOrders, mongoOrders >>

\* C9: every step keeps each store's sequence of orders as a prefix of the
\* new sequence (no order is changed, removed or moved), and a step that
\* answers a GET leaves both stores unchanged.
C9_StoresAppendOnly == [][C9_Step]_vars

\* a listing that is ordered differently from memoryOrders, which it copied
C9_Witness ==
  /\ IsListing
  /\ Len(reply.orders) >= 2
  /\ Len(reply.orders) = Len(memoryOrders)
  /\ reply.orders # memoryOrders

\* ------------------------------------------------------------- C10
C10_ServedFromMemory ==
  connectResult = "failed" =>
     /\ pc = "running"
     /\ readyState = 0
     /\ mongoOrders = << >>
     /\ writing = {}
     /\ \A rid \in DOMAIN requests :
          /\ rid \in DOMAIN responses
          /\ responses[rid].status = 200
          /\ \E k \in DOMAIN memoryOrders : memoryOrders[k].rid = rid

\* C10: on every startup path the server eventually listens, app.listen is
\* never called twice, and after a failed connection attempt the process
\* runs on and every valid create request is stored in memoryOrders and
\* answered 200.
C10_AlwaysStartsListening ==
  /\ <>(pc = "running" /\ listenCount = 1)
  /\ [](listenCount <= 1)
  /\ [] C10_ServedFromMemory

\* a valid request answered 200 after the connection attempt failed
C10_Witness ==
  /\ connectResult = "failed"
  /\ reply.path = "POST /api/orders"
  /\ reply.status = 200
  /\ memoryOrders # << >>
====
